---- MODULE Spec2Model ----
(***************************************************************************)
(* Model of scripts/version.py, the ECM version management script.         *)
(*                                                                         *)
(* A string is a sequence of one-character strings, so that parsing and    *)
(* formatting are computed character by character.  A file is a record of  *)
(* the texts that follow its markers, plus a status saying whether it can  *)
(* be opened.  One invocation of main() is one step, and the return to    *)
(* the shell, where the process and what it printed are gone, is another. *)
(***************************************************************************)
EXTENDS Integers, Sequences, FiniteSets

VARIABLES
    pc,         \* "shell" between invocations, "exited" once main has ended
    canon,      \* the VERSION file
    pico,       \* src/pico/include/config.h
    esp32,      \* src/esp32/include/config.h
    pdefs,      \* src/shared/protocol_defs.h
    args,       \* the argparse namespace of the last invocation
    exitCode,   \* the exit code of the last invocation
    raised,     \* the exception that ended the last invocation, or "none"
    log,        \* the files the last invocation wrote, in order
    shown,      \* the versions the last invocation printed in show mode
    loads,      \* the calls of read_version_file in the last invocation
    fnIn,       \* input of the function under test
    fnKind,     \* bump kind of the function under test
    fnOp,       \* the function that was applied
    fnOut       \* its result

fileVars == <<canon, pico, esp32, pdefs>>
runVars  == <<pc, args, exitCode, raised, log, shown, loads>>
fnVars   == <<fnIn, fnKind, fnOp, fnOut>>
vars     == <<pc, canon, pico, esp32, pdefs, args, exitCode, raised, log, shown,
              loads, fnIn, fnKind, fnOp, fnOut>>

(***************************************************************************)
(* Bounds.                                                                 *)
(***************************************************************************)
\* Longest string handed to the pure functions.
MaxLen == 6
\* A bump is taken only while the bumped component stays within MaxComp.
MaxComp == 2
\* Largest --protocol argument.
MaxProto == 1
\* Most target files that cannot be opened when the first invocation starts.
MaxFaulty == 1

(***************************************************************************)
(* Characters and integer conversion.                                      *)
(***************************************************************************)
DigitChars == <<"0", "1", "2", "3", "4", "5", "6", "7", "8", "9">>
Digits == {DigitChars[i] : i \in 1..10}
NL == "\n"

DigitVal(c) == (CHOOSE i \in 1..10 : DigitChars[i] = c) - 1

AllDigits(s) == \A i \in 1..Len(s) : s[i] \in Digits

RECURSIVE StrToNat(_)
\* int(x) on a run of decimal digits
StrToNat(s) ==
    IF s = <<>> THEN 0
    ELSE 10 * StrToNat(SubSeq(s, 1, Len(s) - 1)) + DigitVal(s[Len(s)])

RECURSIVE NatToStr(_)
\* str(n) for n >= 0
NatToStr(n) ==
    IF n < 10 THEN <<DigitChars[n + 1]>>
    ELSE NatToStr(n \div 10) \o <<DigitChars[(n % 10) + 1]>>

\* str(n) for any integer
IntToStr(n) == IF n < 0 THEN <<"-">> \o NatToStr(0 - n) ELSE NatToStr(n)

\* the texts int() accepts here: an optional minus sign and decimal digits
IsIntText(s) ==
    \/ s # <<>> /\ AllDigits(s)
    \/ Len(s) > 1 /\ s[1] = "-" /\ AllDigits(Tail(s))

TextToInt(s) == IF s[1] = "-" THEN 0 - StrToNat(Tail(s)) ELSE StrToNat(s)

RECURSIVE Strip(_)
\* str.strip() on texts whose only whitespace is the newline
Strip(s) ==
    IF s = <<>> THEN s
    ELSE IF s[1] = NL THEN Strip(Tail(s))
    ELSE IF s[Len(s)] = NL THEN Strip(SubSeq(s, 1, Len(s) - 1))
    ELSE s

(***************************************************************************)
(* parse_version, format_version, bump_version.                            *)
(***************************************************************************)
NoVersion == <<0, 0, 0>>

\* '$' also matches just before a newline that ends the string
BeforeDollar(s) ==
    IF s # <<>> /\ s[Len(s)] = NL THEN SubSeq(s, 1, Len(s) - 1) ELSE s

DotsOf(s) == {i \in 1..Len(s) : s[i] = "."}

\* ^(\d+)\.(\d+)\.(\d+)$
MatchesVersion(s) ==
    LET b == BeforeDollar(s)
        dots == DotsOf(b)
    IN  /\ Cardinality(dots) = 2
        /\ \A i \in (1..Len(b)) \ dots : b[i] \in Digits
        /\ \A i \in dots : i > 1 /\ i < Len(b) /\ (i + 1) \notin dots

parse_version(version_str) ==
    IF ~MatchesVersion(version_str)
    THEN [err |-> "ValueError", v |-> NoVersion]
    ELSE LET b == BeforeDollar(version_str)
             dots == DotsOf(b)
             d1 == CHOOSE i \in dots : \A j \in dots : i <= j
             d2 == CHOOSE i \in dots : \A j \in dots : i >= j
         IN  [err |-> "none",
              v |-> <<StrToNat(SubSeq(b, 1, d1 - 1)),
                      StrToNat(SubSeq(b, d1 + 1, d2 - 1)),
                      StrToNat(SubSeq(b, d2 + 1, Len(b)))>>]

\* format_version with the minor and patch arguments exchanged
format_version_swapped(major, minor, patch) ==
    NatToStr(major) \o <<".">> \o NatToStr(patch) \o <<".">> \o NatToStr(minor)

format_version(major, minor, patch) ==
    NatToStr(major) \o <<".">> \o NatToStr(minor) \o <<".">> \o NatToStr(patch)

\* bump_version whose minor bump forgets to reset the patch component
bump_version_noreset(version_str, bump_type) ==
    LET p == parse_version(version_str)
        major == p.v[1]
        minor == p.v[2]
        patch == p.v[3]
    IN  IF p.err # "none" THEN [err |-> p.err, v |-> <<>>]
        ELSE IF bump_type = "major"
             THEN [err |-> "none", v |-> format_version(major + 1, 0, 0)]
        ELSE IF bump_type = "minor"
             THEN [err |-> "none",
                   v |-> format_version(major, minor + 1, patch)]
        ELSE IF bump_type = "patch"
             THEN [err |-> "none", v |-> format_version(major, minor, patch + 1)]
        ELSE [err |-> "ValueError", v |-> <<>>]

bump_version(version_str, bump_type) ==
    LET p == parse_version(version_str)
        major == p.v[1]
        minor == p.v[2]
        patch == p.v[3]
    IN  IF p.err # "none" THEN [err |-> p.err, v |-> <<>>]
        ELSE IF bump_type = "major"
             THEN [err |-> "none", v |-> format_version(major + 1, 0, 0)]
        ELSE IF bump_type = "minor"
             THEN [err |-> "none", v |-> format_version(major, minor + 1, 0)]
        ELSE IF bump_type = "patch"
             THEN [err |-> "none", v |-> format_version(major, minor, patch + 1)]
        ELSE [err |-> "ValueError", v |-> <<>>]

(***************************************************************************)
(* The pure functions applied to bounded inputs.                           *)
(***************************************************************************)
Alphabet == {"0", "1", "9", ".", "x", NL}
Strings == UNION {[1..n -> Alphabet] : n \in 0..MaxLen}
Kinds == {"major", "minor", "patch", "build"}

ApplyParse ==
    /\ fnOp = "none"
    /\ fnOp' = "parse"
    /\ fnOut' = [err |-> parse_version(fnIn).err, s |-> <<>>,
                 v |-> parse_version(fnIn).v]
    /\ UNCHANGED <<fnIn, fnKind>>

ApplyRoundTrip ==
    /\ fnOp = "none"
    /\ fnOp' = "roundtrip"
    /\ LET p == parse_version(fnIn)
       IN  fnOut' = IF p.err # "none"
                    THEN [err |-> p.err, s |-> <<>>, v |-> NoVersion]
                    ELSE [err |-> "none",
                          s |-> format_version(p.v[1], p.v[2], p.v[3]),
                          v |-> parse_version(
                                  format_version(p.v[1], p.v[2], p.v[3])).v]
    /\ UNCHANGED <<fnIn, fnKind>>

ApplyBump ==
    /\ fnOp = "none"
    /\ fnOp' = "bump"
    /\ \E k \in Kinds :
         LET b == bump_version(fnIn, k)
         IN  /\ fnKind' = k
             /\ fnOut' = [err |-> b.err, s |-> b.v,
                          v |-> IF b.err = "none" THEN parse_version(b.v).v
                                ELSE NoVersion]
    /\ UNCHANGED fnIn

(***************************************************************************)
(* The files.  A numeric marker holds the text that follows the label and  *)
(* its whitespace; ESP32_VERSION holds the text between the quotes.        *)
(***************************************************************************)
Statuses == {"ok", "missing", "readonly"}

S(a, b, c) == <<a, ".", b, ".", c>>

RECURSIVE LeadDigits(_)
\* length of the run of digits that starts the text
LeadDigits(s) ==
    IF s = <<>> \/ s[1] \notin Digits THEN 0 ELSE 1 + LeadDigits(Tail(s))

\* re.sub(r'LABEL\s+\d+', 'LABEL   new', content), seen from the marker's text
SubNumber(text, new) ==
    IF LeadDigits(text) = 0 THEN text
    ELSE new \o SubSeq(text, LeadDigits(text) + 1, Len(text))

\* re.sub(r'LABEL\s+"[^"]+"', 'LABEL   "new"', content), seen from the text
\* between the quotes
SubQuoted(text, new) == IF text = <<>> THEN text ELSE new

NoRead == [err |-> "none", fw |-> <<>>, proto |-> 0]

read_version_file(c) ==
    LET firmware_version == Strip(c.fw)
        protocol_version == Strip(c.proto)
    IN  IF c.status = "missing"
        THEN [NoRead EXCEPT !.err = "FileNotFoundError"]
        ELSE IF firmware_version = <<>> \/ protocol_version = <<>>
        THEN [NoRead EXCEPT !.err = "ValueError"]
        ELSE IF ~IsIntText(protocol_version)
        THEN [NoRead EXCEPT !.err = "ValueError"]
        ELSE [err |-> "none", fw |-> firmware_version,
              proto |-> TextToInt(protocol_version)]

\* What a call does to the file it opens: the exception it raises, or the
\* content it leaves.

\* write_version_file whose template lacks the PROTOCOL_VERSION line
write_version_file_noproto(c, firmware_version, protocol_version) ==
    IF c.status = "readonly" THEN [err |-> "PermissionError", file |-> c]
    ELSE [err |-> "none",
          file |-> [status |-> "ok", fw |-> firmware_version, proto |-> <<>>]]

write_version_file(c, firmware_version, protocol_version) ==
    IF c.status = "readonly" THEN [err |-> "PermissionError", file |-> c]
    ELSE [err |-> "none",
          file |-> [status |-> "ok", fw |-> firmware_version,
                    proto |-> IntToStr(protocol_version)]]

\* update_pico_config that writes the patch into MINOR and the minor into PATCH
update_pico_config_swapped(f, version_str) ==
    LET p == parse_version(version_str)
        major == NatToStr(p.v[1])
        minor == NatToStr(p.v[2])
        patch == NatToStr(p.v[3])
    IN  IF p.err # "none" THEN [err |-> p.err, file |-> f]
        ELSE IF f.status = "missing"
        THEN [err |-> "FileNotFoundError", file |-> f]
        ELSE IF f.status = "readonly"
        THEN [err |-> "PermissionError", file |-> f]
        ELSE [err |-> "none",
              file |-> [f EXCEPT !.major = SubNumber(f.major, major),
                                 !.patch = SubNumber(f.patch, minor),
                                 !.minor = SubNumber(f.minor, patch)]]

update_pico_config(f, version_str) ==
    LET p == parse_version(version_str)
        major == NatToStr(p.v[1])
        minor == NatToStr(p.v[2])
        patch == NatToStr(p.v[3])
    IN  IF p.err # "none" THEN [err |-> p.err, file |-> f]
        ELSE IF f.status = "missing"
        THEN [err |-> "FileNotFoundError", file |-> f]
        ELSE IF f.status = "readonly"
        THEN [err |-> "PermissionError", file |-> f]
        ELSE [err |-> "none",
              file |-> [f EXCEPT !.major = SubNumber(f.major, major),
                                 !.patch = SubNumber(f.patch, patch),
                                 !.minor = SubNumber(f.minor, minor)]]

update_esp32_config(f, version_str) ==
    LET p == parse_version(version_str)
        major == NatToStr(p.v[1])
        minor == NatToStr(p.v[2])
        patch == NatToStr(p.v[3])
    IN  IF p.err # "none" THEN [err |-> p.err, file |-> f]
        ELSE IF f.status = "missing"
        THEN [err |-> "FileNotFoundError", file |-> f]
        ELSE IF f.status = "readonly"
        THEN [err |-> "PermissionError", file |-> f]
        ELSE [err |-> "none",
              file |-> [f EXCEPT !.major = SubNumber(f.major, major),
                                 !.minor = SubNumber(f.minor, minor),
                                 !.patch = SubNumber(f.patch, patch),
                                 !.version = SubQuoted(f.version, version_str)]]

update_protocol_defs(f, protocol_version) ==
    IF f.status = "missing" THEN [err |-> "FileNotFoundError", file |-> f]
    ELSE IF f.status = "readonly" THEN [err |-> "PermissionError", file |-> f]
    ELSE [err |-> "none",
          file |-> [f EXCEPT !.protocol =
                        SubNumber(f.protocol, IntToStr(protocol_version))]]

\* A world is the four files, the writes made so far and the pending
\* exception.  An exception raised by one call skips the calls after it.

\* update_all_versions that saves the VERSION file before the targets
update_all_versions_canonfirst(w, firmware_version, protocol_version) ==
    LET p == update_pico_config(w.pico, firmware_version)
        e == update_esp32_config(w.esp32, firmware_version)
        d == update_protocol_defs(w.pdefs, protocol_version)
        c == write_version_file(w.canon, firmware_version, protocol_version)
    IN  IF c.err # "none" THEN [w EXCEPT !.err = c.err]
        ELSE IF p.err # "none"
        THEN [w EXCEPT !.canon = c.file, !.err = p.err,
                       !.log = w.log \o <<"VERSION">>]
        ELSE IF e.err # "none"
        THEN [w EXCEPT !.canon = c.file, !.pico = p.file, !.err = e.err,
                       !.log = w.log \o <<"VERSION", "pico">>]
        ELSE IF d.err # "none"
        THEN [w EXCEPT !.canon = c.file, !.pico = p.file, !.esp32 = e.file,
                       !.err = d.err,
                       !.log = w.log \o <<"VERSION", "pico", "esp32">>]
        ELSE [w EXCEPT !.canon = c.file, !.pico = p.file, !.esp32 = e.file,
                       !.pdefs = d.file,
                       !.log = w.log \o <<"VERSION", "pico", "esp32", "pdefs">>]

update_all_versions(w, firmware_version, protocol_version) ==
    LET p == update_pico_config(w.pico, firmware_version)
        e == update_esp32_config(w.esp32, firmware_version)
        d == update_protocol_defs(w.pdefs, protocol_version)
        c == write_version_file(w.canon, firmware_version, protocol_version)
    IN  IF p.err # "none" THEN [w EXCEPT !.err = p.err]
        ELSE IF e.err # "none"
        THEN [w EXCEPT !.pico = p.file, !.err = e.err,
                       !.log = w.log \o <<"pico">>]
        ELSE IF d.err # "none"
        THEN [w EXCEPT !.pico = p.file, !.esp32 = e.file, !.err = d.err,
                       !.log = w.log \o <<"pico", "esp32">>]
        ELSE IF c.err # "none"
        THEN [w EXCEPT !.pico = p.file, !.esp32 = e.file, !.pdefs = d.file,
                       !.err = c.err,
                       !.log = w.log \o <<"pico", "esp32", "pdefs">>]
        ELSE [w EXCEPT !.pico = p.file, !.esp32 = e.file, !.pdefs = d.file,
                       !.canon = c.file,
                       !.log = w.log \o <<"pico", "esp32", "pdefs", "VERSION">>]

(***************************************************************************)
(* main.  The result is the world it leaves, the exit code, the exception  *)
(* that ended it, what show mode printed and the number of loads.          *)
(***************************************************************************)
NoShow == [given |-> FALSE, fw |-> <<>>, proto |-> 0]

\* "if args.set:" is false for None and for the empty string
SetGiven(a) == a.hasSet /\ a.set # <<>>

\* the update branch taken whatever the flags
MutatingAlways(a) == TRUE

Mutating(a) == SetGiven(a) \/ a.bump # "none" \/ a.hasProtocol

\* the bump applied to the loaded version, and then overridden by --set
NewFirmware_bumpfirst(a, loaded) ==
    LET b == bump_version(loaded, a.bump)
    IN  IF SetGiven(a) /\ parse_version(a.set).err # "none"
        THEN [err |-> "SystemExit", v |-> <<>>]
        ELSE IF SetGiven(a) THEN [err |-> "none", v |-> a.set]
        ELSE IF a.bump # "none" THEN b
        ELSE [err |-> "none", v |-> loaded]

\* "if args.set:" and "if args.bump:": set first, then bump
NewFirmware(a, loaded) ==
    LET v1 == IF SetGiven(a) THEN a.set ELSE loaded
        b == bump_version(v1, a.bump)
    IN  IF SetGiven(a) /\ parse_version(a.set).err # "none"
        THEN [err |-> "SystemExit", v |-> <<>>]
        ELSE IF a.bump # "none" THEN b
        ELSE [err |-> "none", v |-> v1]

\* "if args.protocol is not None:"
NewProtocol(a, loaded) == IF a.hasProtocol THEN a.protocol ELSE loaded

Fail(w, e, n) ==
    [w |-> w, exitCode |-> 1, raised |-> e, shown |-> NoShow, loads |-> n]

main(w0, a) ==
    LET r1 == read_version_file(w0.canon)
        healed == r1.err = "FileNotFoundError"
        c == write_version_file(w0.canon, S("0", "1", "0"), 1)
        w1 == IF ~healed THEN w0
              ELSE IF c.err # "none" THEN [w0 EXCEPT !.err = c.err]
              ELSE [w0 EXCEPT !.canon = c.file, !.log = <<"VERSION">>]
        r == IF healed /\ w1.err = "none" THEN read_version_file(w1.canon)
             ELSE r1
        n == IF healed /\ w1.err = "none" THEN 2 ELSE 1
        f == NewFirmware(a, r.fw)
        firmware_version == f.v
        protocol_version == NewProtocol(a, r.proto)
        w2 == update_all_versions(w1, firmware_version, protocol_version)
    IN  IF w1.err # "none" THEN Fail(w1, w1.err, n)
        ELSE IF r.err # "none" THEN Fail(w1, r.err, n)
        ELSE IF f.err # "none" THEN Fail(w1, f.err, n)
        ELSE IF Mutating(a)
        THEN [w |-> w2, exitCode |-> IF w2.err = "none" THEN 0 ELSE 1,
              raised |-> w2.err, shown |-> NoShow, loads |-> n]
        ELSE [w |-> w1,
              exitCode |-> IF parse_version(firmware_version).err = "none"
                           THEN 0 ELSE 1,
              raised |-> parse_version(firmware_version).err,
              shown |-> [given |-> TRUE, fw |-> firmware_version,
                         proto |-> protocol_version],
              loads |-> n]

(***************************************************************************)
(* Invocations.                                                            *)
(***************************************************************************)
SetArgs == {<<>>, <<"1", ".", "0">>, <<"0", "1", ".", "1", ".", "0">>,
            <<"1", ".", "0", ".", "1", NL>>}
BumpArgs == {"major", "minor", "patch"}
ProtocolArgs == (-1)..MaxProto

Args ==
    [hasSet : {TRUE}, set : SetArgs, bump : BumpArgs \cup {"none"},
     hasProtocol : {TRUE}, protocol : ProtocolArgs]
    \cup [hasSet : {FALSE}, set : {<<>>}, bump : BumpArgs \cup {"none"},
          hasProtocol : {TRUE}, protocol : ProtocolArgs]
    \cup [hasSet : {TRUE}, set : SetArgs, bump : BumpArgs \cup {"none"},
          hasProtocol : {FALSE}, protocol : {0}]
    \cup [hasSet : {FALSE}, set : {<<>>}, bump : BumpArgs \cup {"none"},
          hasProtocol : {FALSE}, protocol : {0}]

World == [canon |-> canon, pico |-> pico, esp32 |-> esp32, pdefs |-> pdefs,
          log |-> <<>>, err |-> "none"]

\* the bumped version stays within the bound
WithinBound(a) ==
    LET r == read_version_file(canon)
        f == NewFirmware(a, IF r.err = "FileNotFoundError"
                            THEN S("0", "1", "0") ELSE r.fw)
    IN  a.bump # "none" /\ f.err = "none" =>
            \A i \in 1..3 : parse_version(f.v).v[i] <= MaxComp

Run(a) ==
    /\ pc = "shell"
    /\ WithinBound(a)
    /\ pc' = "exited"
    /\ \E m \in {main(World, a)} :
        /\ canon' = m.w.canon
        /\ pico' = m.w.pico
        /\ esp32' = m.w.esp32
        /\ pdefs' = m.w.pdefs
        /\ args' = a
        /\ exitCode' = m.exitCode
        /\ raised' = m.raised
        /\ log' = m.w.log
        /\ shown' = m.shown
        /\ loads' = m.loads
        /\ UNCHANGED fnVars

\* a command line without --set, --bump and --protocol, or whose only flag
\* is an empty --set: the branch that prints the versions
Show == pc = "shell" /\ \E a \in Args : ~Mutating(a) /\ Run(a)

\* a command line with --set, --bump and/or --protocol: the update branch
Update == pc = "shell" /\ \E a \in Args : Mutating(a) /\ Run(a)

NoArgs == [hasSet |-> FALSE, set |-> <<>>, bump |-> "none",
           hasProtocol |-> FALSE, protocol |-> 0]

\* the process is gone: the shell is ready for the next command line
Exit ==
    /\ pc = "exited"
    /\ pc' = "shell"
    /\ args' = NoArgs
    /\ exitCode' = 0
    /\ raised' = "none"
    /\ log' = <<>>
    /\ shown' = NoShow
    /\ loads' = 0
    /\ UNCHANGED <<fileVars, fnVars>>

NoOut == [err |-> "none", s |-> <<>>, v |-> NoVersion]

Targets == {"pico", "esp32", "pdefs"}

\* who can be opened: at most MaxFaulty targets cannot
StatusInit ==
    {st \in [Targets -> Statuses] :
        Cardinality({f \in Targets : st[f] # "ok"}) <= MaxFaulty}

\* the VERSION file is absent, complete, or lacks its FIRMWARE_VERSION line
CanonInit ==
    {[status |-> "missing", fw |-> <<>>, proto |-> <<>>]}
    \cup [status : {"ok", "readonly"}, fw : {S("0", "1", "0"), <<>>},
          proto : {<<"1">>}]

\* the targets carry 0.1.0 and protocol 1, or an older 0.0.1 and protocol 0
ContentInit ==
    {[fw |-> <<"0", "1", "0">>, proto |-> <<"1">>],
     [fw |-> <<"0", "0", "1">>, proto |-> <<"0">>]}

Init ==
    /\ canon \in CanonInit
    /\ \E st \in StatusInit, c \in ContentInit :
          /\ pico = [status |-> st["pico"], major |-> <<c.fw[1]>>,
                     minor |-> <<c.fw[2]>>, patch |-> <<c.fw[3]>>]
          /\ esp32 = [status |-> st["esp32"], major |-> <<c.fw[1]>>,
                      minor |-> <<c.fw[2]>>, patch |-> <<c.fw[3]>>,
                      version |-> S(c.fw[1], c.fw[2], c.fw[3])]
          /\ pdefs = [status |-> st["pdefs"], protocol |-> c.proto]
    /\ pc = "shell"
    /\ args = NoArgs
    /\ exitCode = 0
    /\ raised = "none"
    /\ log = <<>>
    /\ shown = NoShow
    /\ loads = 0
    /\ fnIn = <<>>
    /\ fnKind = "patch"
    /\ fnOp = "none"
    /\ fnOut = NoOut

Next == Show \/ Update \/ Exit

Spec == Init /\ [][Next]_vars

\* the first invocation finds a VERSION file that holds a valid record
InitValid ==
    /\ Init
    /\ read_version_file(canon).err = "none"
    /\ parse_version(read_version_file(canon).fw).err = "none"
    /\ read_version_file(canon).proto >= 0

SpecValid == InitValid /\ [][Next]_vars

InitFn ==
    /\ canon = [status |-> "ok", fw |-> S("0", "1", "0"), proto |-> <<"1">>]
    /\ pico = [status |-> "ok", major |-> <<"0">>, minor |-> <<"1">>,
               patch |-> <<"0">>]
    /\ esp32 = [status |-> "ok", major |-> <<"0">>, minor |-> <<"1">>,
                patch |-> <<"0">>, version |-> S("0", "1", "0")]
    /\ pdefs = [status |-> "ok", protocol |-> <<"1">>]
    /\ pc = "shell"
    /\ args = NoArgs
    /\ exitCode = 0
    /\ raised = "none"
    /\ log = <<>>
    /\ shown = NoShow
    /\ loads = 0
    /\ fnIn \in Strings
    /\ fnKind = "patch"
    /\ fnOp = "none"
    /\ fnOut = NoOut

NextFn ==
    \/ ApplyParse /\ UNCHANGED <<fileVars, runVars>>
    \/ ApplyRoundTrip /\ UNCHANGED <<fileVars, runVars>>
    \/ ApplyBump /\ UNCHANGED <<fileVars, runVars>>

SpecFn == InitFn /\ [][NextFn]_vars

(***************************************************************************)
(* What the files say, and what an invocation is.                          *)
(***************************************************************************)
\* an invocation: main runs from start to end
Step == pc = "shell" /\ pc' = "exited"

\* no --set, --bump or --protocol on the command line
IsShow(a) == ~a.hasSet /\ a.bump = "none" /\ ~a.hasProtocol

\* only --protocol on the command line
ProtocolOnly(a) == ~a.hasSet /\ a.bump = "none" /\ a.hasProtocol

\* digits.digits.digits and nothing else
IsVersionForm(s) == MatchesVersion(s) /\ s[Len(s)] # NL

\* digits.digits.digits where no component has a superfluous leading zero
IsCanonicalForm(s) ==
    /\ IsVersionForm(s)
    /\ \A i \in 1..Len(s) :
         (s[i] = "0" /\ (i = 1 \/ s[i - 1] = ".")) =>
             (i = Len(s) \/ s[i + 1] = ".")

PicoValues(f) == <<StrToNat(f.major), StrToNat(f.minor), StrToNat(f.patch)>>
Esp32Values(f) == <<StrToNat(f.major), StrToNat(f.minor), StrToNat(f.patch)>>

\* every file carries the record that the VERSION file holds
Agreement ==
    LET r == read_version_file(canon)
        p == parse_version(r.fw)
    IN  /\ r.err = "none"
        /\ p.err = "none"
        /\ PicoValues(pico) = p.v
        /\ Esp32Values(esp32) = p.v
        /\ parse_version(esp32.version).err = "none"
        /\ parse_version(esp32.version).v = p.v
        /\ IsIntText(pdefs.protocol)
        /\ TextToInt(pdefs.protocol) = r.proto

\* the Pico and ESP32 files carry the firmware version of the VERSION file
FirmwareInAgreement ==
    LET r == read_version_file(canon)
        p == parse_version(r.fw)
    IN  /\ r.err = "none"
        /\ p.err = "none"
        /\ PicoValues(pico) = p.v
        /\ Esp32Values(esp32) = p.v
        /\ esp32.version = r.fw

Order == <<"pico", "esp32", "pdefs", "VERSION">>
DefaultCanon == [status |-> "ok", fw |-> S("0", "1", "0"), proto |-> <<"1">>]

IsPrefix(s, q) == Len(s) <= Len(q) /\ s = SubSeq(q, 1, Len(s))

InLog(f, l) == \E i \in 1..Len(l) : l[i] = f

\* the files of Order that cannot be written, by position
Faulty ==
    {i \in 1..4 :
        \/ i = 1 /\ pico.status # "ok"
        \/ i = 2 /\ esp32.status # "ok"
        \/ i = 3 /\ pdefs.status # "ok"
        \/ i = 4 /\ canon.status = "readonly"}

\* position of the first file that cannot be written, 5 if there is none
FirstFaulty ==
    IF Faulty = {} THEN 5 ELSE CHOOSE i \in Faulty : \A j \in Faulty : i <= j

\* the record main loads, after the default was created if need be
Loaded ==
    IF canon.status = "missing" THEN read_version_file(DefaultCanon)
    ELSE read_version_file(canon)

(***************************************************************************)
(* C1.                                                                     *)
(***************************************************************************)
\* C1: every mutating invocation that completes successfully leaves the
\* Pico defines, the ESP32 defines and string, ECM_PROTOCOL_VERSION and the
\* VERSION file carrying the values of one version record.
C1_AllFilesAgree ==
    (pc = "exited" /\ Mutating(args) /\ exitCode = 0) => Agreement

(***************************************************************************)
(* C2.                                                                     *)
(***************************************************************************)
\* C2: an invocation whose --set value is not digits.digits.digits exits
\* with code 1 and leaves the VERSION file and the three targets as they
\* were, whatever the files were, the VERSION file being absent included.
C2_InvalidSetTouchesNothing ==
    [][(Step /\ args'.hasSet /\ ~IsVersionForm(args'.set)) =>
          /\ exitCode' = 1
          /\ canon' = canon
          /\ pico' = pico
          /\ esp32' = esp32
          /\ pdefs' = pdefs]_vars

(***************************************************************************)
(* C3.                                                                     *)
(***************************************************************************)
\* C3 (as claimed): show writes no file, whatever the files were.
C3_ShowWritesNothing ==
    [][(Step /\ IsShow(args')) =>
          /\ canon' = canon
          /\ pico' = pico
          /\ esp32' = esp32
          /\ pdefs' = pdefs]_vars

\* C3 (amended): show writes no file when the VERSION file exists; when it
\* is absent show writes the VERSION file, once, and no target.
C3_ShowWritesNothingIfCanonExists ==
    [][(Step /\ IsShow(args')) =>
          /\ pico' = pico
          /\ esp32' = esp32
          /\ pdefs' = pdefs
          /\ canon.status # "missing" => canon' = canon /\ log' = <<>>
          /\ canon.status = "missing" => log' = <<"VERSION">>]_vars

C3_Witness ==
    /\ pc = "exited"
    /\ IsShow(args)
    /\ shown.given
    /\ exitCode = 0
    /\ loads = 1
    /\ log = <<>>
    /\ ~Agreement

(***************************************************************************)
(* C4.                                                                     *)
(***************************************************************************)
\* C4 (as claimed): a protocol-only update leaves the MAJOR/MINOR/PATCH
\* values of the Pico and ESP32 files and the ESP32_VERSION string as they
\* were, whatever they were.
C4_ProtocolOnlyKeepsFirmware ==
    [][(Step /\ ProtocolOnly(args')) =>
          /\ PicoValues(pico') = PicoValues(pico)
          /\ Esp32Values(esp32') = Esp32Values(esp32)
          /\ esp32'.version = esp32.version]_vars

\* C4 (amended): a protocol-only update of files whose firmware fields carry
\* the firmware version of the VERSION file leaves those fields and the
\* firmware version of the VERSION file as they were; when it succeeds the
\* VERSION file carries the new protocol version, and so does
\* ECM_PROTOCOL_VERSION if its marker held a number.
C4_ProtocolOnlyKeepsAgreedFirmware ==
    [][(Step /\ ProtocolOnly(args') /\ FirmwareInAgreement) =>
          /\ PicoValues(pico') = PicoValues(pico)
          /\ Esp32Values(esp32') = Esp32Values(esp32)
          /\ esp32'.version = esp32.version
          /\ read_version_file(canon').fw = read_version_file(canon).fw
          /\ exitCode' = 0 =>
               /\ log' = Order
               /\ read_version_file(canon').proto = args'.protocol
               /\ LeadDigits(pdefs.protocol) > 0 =>
                    pdefs'.protocol = IntToStr(args'.protocol)]_vars

C4_Witness ==
    /\ pc = "exited"
    /\ ProtocolOnly(args)
    /\ exitCode = 0
    /\ log = Order
    /\ FirmwareInAgreement
    /\ args.protocol = MaxProto
    /\ pdefs.protocol = IntToStr(MaxProto)
    /\ canon.proto = IntToStr(MaxProto)
    /\ PicoValues(pico) # <<0, 1, 0>>

(***************************************************************************)
(* C5.                                                                     *)
(***************************************************************************)
\* C5: for a valid version (major, minor, patch) bump_version returns
\* (major+1, 0, 0) for 'major', (major, minor+1, 0) for 'minor' and
\* (major, minor, patch+1) for 'patch'; for another kind it fails and
\* returns no version.
C5_Bump ==
    (fnOp = "bump" /\ parse_version(fnIn).err = "none") =>
        LET v == parse_version(fnIn).v
        IN  /\ fnKind = "major" =>
                fnOut.err = "none" /\ fnOut.v = <<v[1] + 1, 0, 0>>
            /\ fnKind = "minor" =>
                fnOut.err = "none" /\ fnOut.v = <<v[1], v[2] + 1, 0>>
            /\ fnKind = "patch" =>
                fnOut.err = "none" /\ fnOut.v = <<v[1], v[2], v[3] + 1>>
            /\ fnKind \notin {"major", "minor", "patch"} =>
                fnOut.err = "ValueError" /\ fnOut.s = <<>>
            /\ fnOut.err = "none" => IsCanonicalForm(fnOut.s)

C5_Witness ==
    /\ fnOp = "bump"
    /\ fnKind = "minor"
    /\ fnIn = <<"1", ".", "9", ".", "1">>
    /\ fnOut.s = <<"1", ".", "1", "0", ".", "0">>

(***************************************************************************)
(* C6.                                                                     *)
(***************************************************************************)
\* C6 (as claimed): format_version(parse_version(s)) = s for every string s
\* that parse_version accepts.
C6_RoundTrip ==
    (fnOp = "roundtrip" /\ fnOut.err = "none") => fnOut.s = fnIn

\* C6 (amended): format_version(parse_version(s)) = s for every string s of
\* the form digits.digits.digits in which no component has a superfluous
\* leading zero; for every string that parse_version accepts,
\* parse_version(format_version(parse_version(s))) = parse_version(s).
C6_RoundTripCanonical ==
    (fnOp = "roundtrip" /\ fnOut.err = "none") =>
        /\ IsCanonicalForm(fnIn) => fnOut.s = fnIn
        /\ fnOut.v = parse_version(fnIn).v
        /\ IsCanonicalForm(fnOut.s)

C6_Witness ==
    /\ fnOp = "roundtrip"
    /\ fnIn = <<"1", "0", ".", "0", ".", "9">>
    /\ fnOut.err = "none"
    /\ fnOut.s = fnIn

(***************************************************************************)
(* C7.                                                                     *)
(***************************************************************************)
\* C7: show with the VERSION file absent creates it with firmware 0.1.0 and
\* protocol 1 and loads it a second time, once; a show that follows reads
\* 0.1.0 and 1 back.
C7_ShowCreatesDefault ==
    [][(Step /\ IsShow(args')) =>
          /\ canon.status = "missing" =>
               /\ canon' = DefaultCanon
               /\ log' = <<"VERSION">>
               /\ loads' = 2
               /\ exitCode' = 0
               /\ shown' = [given |-> TRUE, fw |-> S("0", "1", "0"),
                            proto |-> 1]
          /\ canon = DefaultCanon =>
               /\ loads' = 1
               /\ exitCode' = 0
               /\ shown' = [given |-> TRUE, fw |-> S("0", "1", "0"),
                            proto |-> 1]]_vars

C7_Witness ==
    /\ pc = "exited"
    /\ IsShow(args)
    /\ loads = 2
    /\ log = <<"VERSION">>
    /\ canon = DefaultCanon
    /\ shown.given
    /\ shown.fw = S("0", "1", "0")
    /\ shown.proto = 1

(***************************************************************************)
(* C8.                                                                     *)
(***************************************************************************)
\* C8: the record in the VERSION file has non-negative integer firmware
\* components and a non-negative integer protocol version.
C8_RecordNonNegative ==
    (canon.status # "missing" /\ Strip(canon.fw) # <<>>
       /\ Strip(canon.proto) # <<>>) =>
        /\ read_version_file(canon).err = "none"
        /\ parse_version(read_version_file(canon).fw).err = "none"
        /\ \A i \in 1..3 : parse_version(read_version_file(canon).fw).v[i] >= 0
        /\ read_version_file(canon).proto >= 0

(***************************************************************************)
(* C9.                                                                     *)
(***************************************************************************)
\* the files a mutating invocation wrote carry the new values, the others
\* are as they were, and the writes stopped at the first file that could
\* not be written
PartialUpdate(l) ==
    LET nf == NewFirmware(args', Loaded.fw)
        reached == Loaded.err = "none" /\ nf.err = "none"
    IN  /\ IsPrefix(l, Order)
        /\ reached => l = SubSeq(Order, 1, FirstFaulty - 1)
        /\ ~reached => l = <<>>
        /\ (exitCode' = 0) = (l = Order)
        /\ (raised' = "none") = (l = Order)
        /\ InLog("pico", l) => PicoValues(pico') = parse_version(nf.v).v
        /\ InLog("esp32", l) =>
             /\ Esp32Values(esp32') = parse_version(nf.v).v
             /\ esp32'.version = nf.v
        /\ InLog("VERSION", l) =>
             read_version_file(canon').fw = Strip(nf.v)
        /\ ~InLog("pico", l) => pico' = pico
        /\ ~InLog("esp32", l) => esp32' = esp32
        /\ ~InLog("pdefs", l) => pdefs' = pdefs

\* C9 (as claimed): a mutating invocation writes Pico, ESP32, protocol defs
\* and the VERSION file in this order; when a target cannot be read or
\* written the run aborts, the targets before it carry the new values, and
\* it, the later targets and the VERSION file are as they were.
C9_OrderedWrites ==
    [][(Step /\ Mutating(args')) =>
          /\ PartialUpdate(log')
          /\ ~InLog("VERSION", log') => canon' = canon]_vars

\* C9 (amended): the same when the VERSION file exists as the invocation
\* starts; when it is absent, the VERSION file is first created with the
\* default record, and the writes then follow in the same order.
C9_OrderedWritesAfterLoad ==
    [][(Step /\ Mutating(args')) =>
          /\ canon.status # "missing" =>
               /\ PartialUpdate(log')
               /\ ~InLog("VERSION", log') => canon' = canon
          /\ canon.status = "missing" =>
               /\ log' # <<>>
               /\ log'[1] = "VERSION"
               /\ PartialUpdate(Tail(log'))
               /\ ~InLog("VERSION", Tail(log')) => canon' = DefaultCanon]_vars

C9_Witness ==
    /\ pc = "exited"
    /\ Mutating(args)
    /\ log = <<"pico", "esp32">>
    /\ pdefs.status = "missing"
    /\ raised = "FileNotFoundError"
    /\ exitCode = 1
    /\ PicoValues(pico) = <<1, 0, 0>>
    /\ esp32.version = S("1", "0", "0")
    /\ canon = DefaultCanon
    /\ pdefs.protocol = <<"0">>

(***************************************************************************)
(* C10.                                                                    *)
(***************************************************************************)
\* C10: with a valid --set V and --bump K the firmware version written to
\* every file is bump(V, K), whatever version was loaded, and the protocol
\* version written is the loaded one unless --protocol is given.
C10_SetThenBump ==
    [][(Step /\ SetGiven(args') /\ args'.bump # "none" /\ exitCode' = 0) =>
          LET nv == bump_version(args'.set, args'.bump)
              np == IF args'.hasProtocol THEN args'.protocol ELSE Loaded.proto
          IN  /\ nv.err = "none"
              /\ canon'.fw = nv.v
              /\ PicoValues(pico') = parse_version(nv.v).v
              /\ Esp32Values(esp32') = parse_version(nv.v).v
              /\ esp32'.version = nv.v
              /\ canon'.proto = IntToStr(np)
              /\ LeadDigits(pdefs.protocol) > 0 =>
                   pdefs'.protocol = IntToStr(np)]_vars

C10_Witness ==
    /\ pc = "exited"
    /\ args.hasSet
    /\ args.set = <<"0", "1", ".", "1", ".", "0">>
    /\ args.bump = "patch"
    /\ ~args.hasProtocol
    /\ exitCode = 0
    /\ canon.fw = S("1", "1", "1")
    /\ esp32.version = S("1", "1", "1")
    /\ PicoValues(pico) = <<1, 1, 1>>
    /\ canon.proto = <<"0">>

====
